---- MODULE Spec2Model ----
(***************************************************************************)
(* A state-machine model of the curve editor in                            *)
(* src/src/classes/DrawingHelper.js (DrawingHelper, ReferenceImage and the *)
(* module-level activeTool / mousePos) together with the App.jsx handlers  *)
(* that load a stored snapshot on page load.                               *)
(*                                                                         *)
(* Conventions                                                             *)
(*  - JavaScript object identity of CurveGroup instances is kept: heap     *)
(*    maps an object id to the group's fields, curveGroups is the array of *)
(*    object ids and activeCurveGroup is an optional object id.            *)
(*  - null / undefined is the empty sequence None, a present value v is    *)
(*    Some(v) = <<v>>.  dragControl, a two-element array, is <<i, j>>.     *)
(*  - Array indices stay 0-based in the drag fields; At(s, i) reads s[i].  *)
(*  - Coordinates are integers.  Pointer positions and snapshot points lie *)
(*    on a grid of multiples of 5, so 0.2*d and 0.8*d are integers.        *)
(*  - The reference scale is kept in hundredths (ScaleUnit = 100).         *)
(***************************************************************************)
EXTENDS Integers, Sequences, FiniteSets, TLC

VARIABLES
    heap,               \* CurveGroup instances: object id -> [id, points, controls]
    curveGroups,        \* DrawingHelper.curveGroups: sequence of object ids
    activeCurveGroup,   \* DrawingHelper.activeCurveGroup: None or Some(object id)
    originPos,          \* DrawingHelper.originPos
    display,            \* the display properties and cached halves of DrawingHelper
    dragStart,          \* None or Some([x, y])
    dragPoint,          \* None or Some(point index)
    dragControl,        \* None or <<control index, endpoint index>>
    dragOrigin,         \* BOOLEAN
    reference,          \* the ReferenceImage instance
    activeTool,         \* module-level activeTool
    mousePos,           \* module-level mousePos
    running,            \* MainLoop is started
    storage,            \* localStorage[storageKey]: None or Some(snapshot)
    message,            \* last text handed to setMessage
    failureLogged       \* the console carries "MainLoop update failed"

vars == <<heap, curveGroups, activeCurveGroup, originPos, display, dragStart,
          dragPoint, dragControl, dragOrigin, reference, activeTool, mousePos,
          running, storage, message, failureLogged>>

-----------------------------------------------------------------------------
(* Program constants *)

TRANSFORM_REFERENCE == 0
ADD_POINTS == 1
DELETE_POINTS == 2
EDIT_POINTS == 3
EDIT_CONTROLS == 4
EDIT_ORIGIN_POINT == 54

ToolTypes ==
    {TRANSFORM_REFERENCE, ADD_POINTS, DELETE_POINTS, EDIT_POINTS, EDIT_CONTROLS,
     EDIT_ORIGIN_POINT}

canvasWidth == 1024
canvasHeight == 768
markerSize == 32
originSize == 64
originSizeHalf == originSize \div 2

\* the reference scale is stored in hundredths: scale 1 is 100, 0.1 is 10
ScaleUnit == 100
MinScale == 10

-----------------------------------------------------------------------------
(* Bounds of the model *)

MaxGroups == 3
MaxPoints == 2
\* committed coordinates stay in 0..MaxCoord
MaxCoord == 30
\* the committed reference scale stays at or below MaxScale (hundredths)
MaxScale == 105

-----------------------------------------------------------------------------
(* Values *)

None == <<>>
Some(v) == <<v>>

Point(x, y) == [x |-> x, y |-> y]
Control(x1, y1, x2, y2) == [points |-> <<Point(x1, y1), Point(x2, y2)>>]
CurveGroup(id) == [id |-> id, points |-> <<>>, controls |-> <<>>]

\* s[i] for a 0-based index i
At(s, i) == s[i + 1]

Range(s) == {s[i] : i \in 1..Len(s)}

Max(a, b) == IF a >= b THEN a ELSE b

\* value * 0.5 on the even values the model feeds to the setters
Half(value) == value \div 2

\* d * 0.2 and d * 0.8 for d a multiple of 5
Frac(d, tenths) == (d * tenths) \div 10

-----------------------------------------------------------------------------
(* Object identities *)

ObjectIds == 1..(2 * MaxGroups + 1)

\* the object ids reachable from the editor
Live(groups, active) == Range(groups) \cup Range(active)

\* drop the instances nothing refers to any more
Collect(h, groups, active) == [o \in Live(groups, active) |-> h[o]]

\* n fresh object ids, none of them in used, lowest first
RECURSIVE Fresh(_, _)
Fresh(n, used) ==
    IF n = 0 THEN <<>>
    ELSE LET o == CHOOSE c \in ObjectIds \ used :
                      \A d \in ObjectIds \ used : c <= d
         IN <<o>> \o Fresh(n - 1, used \cup {o})

\* the active group's fields; only meaningful when there is an active group
ActiveGroup == heap[activeCurveGroup[1]]

\* this.activeCurveGroup?.id, None when there is no active group
ActiveGroupId == IF activeCurveGroup = None THEN None ELSE Some(ActiveGroup.id)

-----------------------------------------------------------------------------
(* Input domains of the model *)

GroupIds == {"a", "b", "c"}

\* encoded image payloads; "" is the unset payload
ImageData == {"imgA", "imgBig"}

\* natural size of each decoded payload
NaturalSize(src) ==
    IF src = "imgA" THEN [width |-> 100, height |-> 100]
    ELSE IF src = "imgBig" THEN [width |-> 40, height |-> 40]
    ELSE [width |-> 0, height |-> 0]

-----------------------------------------------------------------------------
(* ReferenceImage *)

ReferenceImage ==
    [ready |-> FALSE,
     data |-> "",
     image |-> [src |-> "", state |-> "empty"],
     offset |-> Point(0, 0),
     scale |-> ScaleUnit,
     dragPosition |-> Point(0, 0),
     moving |-> FALSE,
     scaling |-> FALSE,
     opacity |-> 1,
     color |-> "#ff0099"]

\* this.image.width / this.image.height
imageWidth(ref) ==
    IF ref.image.state = "loaded" THEN NaturalSize(ref.image.src).width ELSE 0

imageHeight(ref) ==
    IF ref.image.state = "loaded" THEN NaturalSize(ref.image.src).height ELSE 0

\* width * scale, compared against coordinates multiplied by ScaleUnit
scaledWidth(ref) == imageWidth(ref) * ref.scale
scaledHeight(ref) == imageHeight(ref) * ref.scale

refSetData(ref, data) ==
    [ref EXCEPT !.data = data,
                !.image = [src |-> data,
                           state |-> IF data = "" THEN "empty" ELSE "loading"]]

refClearData(ref) == [refSetData(ref, "") EXCEPT !.ready = FALSE]

refResetTransforms(ref) ==
    [ref EXCEPT !.offset = Point(0, 0), !.scale = ScaleUnit]

\* Math.max(scale - deltaY * 0.01, 0.1) in hundredths
dragScale(scale, deltaY) == Max(scale - deltaY, MinScale)

\* the offset and scale ReferenceImage.update draws with
refPreview(ref, mouse) ==
    LET deltaX == mouse.x - ref.dragPosition.x
        deltaY == mouse.y - ref.dragPosition.y
    IN IF ref.moving
       THEN [offset |-> Point(ref.offset.x + deltaX, ref.offset.y + deltaY),
             scale |-> ref.scale]
       ELSE IF ref.scaling
       THEN [offset |-> ref.offset, scale |-> dragScale(ref.scale, deltaY)]
       ELSE [offset |-> ref.offset, scale |-> ref.scale]

overImage(ref, mouse) ==
    /\ mouse.x * ScaleUnit > ref.offset.x * ScaleUnit
    /\ mouse.x * ScaleUnit < ref.offset.x * ScaleUnit + scaledWidth(ref)
    /\ mouse.y * ScaleUnit > ref.offset.y * ScaleUnit
    /\ mouse.y * ScaleUnit < ref.offset.y * ScaleUnit + scaledHeight(ref)

\* a marker test that knows the top-left corner only
overScaleMarkerTopLeft(ref, mouse) ==
    /\ mouse.x < ref.offset.x + markerSize
    /\ mouse.y < ref.offset.y + markerSize

overScaleMarker(ref, mouse) ==
    \/ /\ mouse.x < ref.offset.x + markerSize
       /\ mouse.y < ref.offset.y + markerSize
    \/ /\ mouse.x * ScaleUnit >
            ref.offset.x * ScaleUnit + scaledWidth(ref) - markerSize * ScaleUnit
       /\ mouse.y * ScaleUnit >
            ref.offset.y * ScaleUnit + scaledHeight(ref) - markerSize * ScaleUnit

refOnMouseDown(ref, tool, mouse) ==
    IF ~ref.ready \/ tool # TRANSFORM_REFERENCE THEN ref
    ELSE IF overImage(ref, mouse)
    THEN IF overScaleMarker(ref, mouse)
         THEN [ref EXCEPT !.scaling = TRUE, !.dragPosition = mouse]
         ELSE [ref EXCEPT !.moving = TRUE, !.dragPosition = mouse]
    ELSE ref

\* a release that commits the scale without the lower limit
refOnMouseUpUnclamped(ref, mouse) ==
    IF ~ref.ready THEN ref
    ELSE IF ref.moving \/ ref.scaling
    THEN LET deltaX == mouse.x - ref.dragPosition.x
             deltaY == mouse.y - ref.dragPosition.y
         IN IF ref.moving
            THEN [ref EXCEPT !.offset.x = @ + deltaX, !.offset.y = @ + deltaY,
                             !.moving = FALSE, !.scaling = FALSE]
            ELSE [ref EXCEPT !.scale = @ - deltaY,
                             !.moving = FALSE, !.scaling = FALSE]
    ELSE ref

refOnMouseUp(ref, mouse) ==
    IF ~ref.ready THEN ref
    ELSE IF ref.moving \/ ref.scaling
    THEN LET deltaX == mouse.x - ref.dragPosition.x
             deltaY == mouse.y - ref.dragPosition.y
         IN IF ref.moving
            THEN [ref EXCEPT !.offset.x = @ + deltaX, !.offset.y = @ + deltaY,
                             !.moving = FALSE, !.scaling = FALSE]
            ELSE [ref EXCEPT !.scale = Max(@ - deltaY, MinScale),
                             !.moving = FALSE, !.scaling = FALSE]
    ELSE ref

-----------------------------------------------------------------------------
(* DrawingHelper: fields after construction *)

DisplayDefaults ==
    [lineWidth |-> 2,
     pointSize |-> 16,
     pointSizeHalf |-> Half(16),
     activeOpacity |-> 1,
     inactiveOpacity |-> 1,
     mainColor |-> "#ff0099",
     controlColor |-> "#ffffff",
     originColor |-> "#ffffff",
     pointRange |-> 16,
     pointRangeHalf |-> Half(16),
     outputPrecision |-> 2]

Init ==
    /\ heap = <<>>
    /\ curveGroups = <<>>
    /\ activeCurveGroup = None
    /\ originPos = Point(0, 0)
    /\ display = DisplayDefaults
    /\ dragStart = None
    /\ dragPoint = None
    /\ dragControl = None
    /\ dragOrigin = FALSE
    /\ reference = ReferenceImage
    /\ activeTool = TRANSFORM_REFERENCE
    /\ mousePos = Point(0, 0)
    /\ running = TRUE
    /\ storage = None
    /\ message = None
    /\ failureLogged = FALSE

-----------------------------------------------------------------------------
(* Curve groups *)

\* ids carried by the instances the editor still refers to
IdsInUse == {heap[o].id : o \in DOMAIN heap}

\* curveGroups.find((group) => group.id === id): None or Some(object id)
findGroup(groups, h, id) ==
    LET hits == {i \in 1..Len(groups) : h[groups[i]].id = id}
    IN IF hits = {} THEN None
       ELSE Some(groups[CHOOSE i \in hits : \A k \in hits : i <= k])

\* curveGroups.filter((group) => group.id !== id)
filterGroups(groups, h, id) ==
    LET keep(o) == h[o].id # id IN SelectSeq(groups, keep)

createGroup(id) ==
    /\ Len(curveGroups) < MaxGroups
    /\ id \notin IdsInUse
    /\ LET newGroup == Fresh(1, Live(curveGroups, activeCurveGroup))[1]
           groups == Append(curveGroups, newGroup)
           h == [o \in DOMAIN heap \cup {newGroup} |->
                    IF o = newGroup THEN CurveGroup(id) ELSE heap[o]]
       IN /\ curveGroups' = groups
          /\ activeCurveGroup' = Some(newGroup)
          /\ heap' = Collect(h, groups, Some(newGroup))
    /\ UNCHANGED <<originPos, display, dragStart, dragPoint, dragControl,
                   dragOrigin, reference, activeTool, mousePos, running,
                   storage, message, failureLogged>>

\* a deletion that always clears the active group
deleteGroupClears(active, activeId, id) == None

\* the active-group reference deleteGroup leaves
deleteGroupActive(active, activeId, id) ==
    IF activeId = Some(id) THEN None ELSE active

deleteGroup(id) ==
    /\ LET groups == filterGroups(curveGroups, heap, id)
           active == deleteGroupActive(activeCurveGroup, ActiveGroupId, id)
       IN /\ curveGroups' = groups
          /\ activeCurveGroup' = active
          /\ heap' = Collect(heap, groups, active)
    /\ UNCHANGED <<originPos, display, dragStart, dragPoint, dragControl,
                   dragOrigin, reference, activeTool, mousePos, running,
                   storage, message, failureLogged>>

\* a lookup that clears the active group when the id is not found
resolveActiveOrClear(groups, h, active, id) == findGroup(groups, h, id)

\* the active-group reference setActiveGroupId leaves
resolveActive(groups, h, active, id) ==
    LET foundGroup == findGroup(groups, h, id)
    IN IF foundGroup # None THEN foundGroup ELSE active

setActiveGroupId(id) ==
    /\ LET active == resolveActive(curveGroups, heap, activeCurveGroup, id)
       IN /\ activeCurveGroup' = active
          /\ heap' = Collect(heap, curveGroups, active)
    /\ UNCHANGED <<curveGroups, originPos, display, dragStart, dragPoint,
                   dragControl, dragOrigin, reference, activeTool, mousePos,
                   running, storage, message, failureLogged>>

\* a pop that forgets the control
popLastPointOnly(g) == [g EXCEPT !.points = SubSeq(@, 1, Len(@) - 1)]

\* points.pop(); controls.pop()
popLast(g) ==
    [g EXCEPT !.points = SubSeq(@, 1, Len(@) - 1),
              !.controls = SubSeq(@, 1, Len(@) - 1)]

deleteLastPoint ==
    /\ IF activeCurveGroup # None /\ Len(ActiveGroup.points) > 0
       THEN heap' = [heap EXCEPT ![activeCurveGroup[1]] = popLast(@)]
       ELSE heap' = heap
    /\ UNCHANGED <<curveGroups, activeCurveGroup, originPos, display, dragStart,
                   dragPoint, dragControl, dragOrigin, reference, activeTool,
                   mousePos, running, storage, message, failureLogged>>

\* a sync that copies the last point onto the first
syncFirstToLast(g) ==
    IF Len(g.points) > 1
    THEN [g EXCEPT !.points[1] = g.points[Len(g.points)]]
    ELSE g

\* lastPoint.x = firstPoint.x; lastPoint.y = firstPoint.y
syncGroup(g) ==
    IF Len(g.points) > 1
    THEN [g EXCEPT !.points[Len(g.points)] = g.points[1]]
    ELSE g

syncLastPoint ==
    /\ IF activeCurveGroup # None
       THEN heap' = [heap EXCEPT ![activeCurveGroup[1]] = syncGroup(@)]
       ELSE heap' = heap
    /\ UNCHANGED <<curveGroups, activeCurveGroup, originPos, display, dragStart,
                   dragPoint, dragControl, dragOrigin, reference, activeTool,
                   mousePos, running, storage, message, failureLogged>>

setActiveTool(value) ==
    /\ activeTool' = value
    /\ UNCHANGED <<heap, curveGroups, activeCurveGroup, originPos, display,
                   dragStart, dragPoint, dragControl, dragOrigin, reference,
                   mousePos, running, storage, message, failureLogged>>

-----------------------------------------------------------------------------
(* Pointer handlers *)

handleMouseMove(pos) ==
    /\ mousePos' = pos
    /\ UNCHANGED <<heap, curveGroups, activeCurveGroup, originPos, display,
                   dragStart, dragPoint, dragControl, dragOrigin, reference,
                   activeTool, running, storage, message, failureLogged>>

\* the pick test of EDIT_POINTS, EDIT_CONTROLS and EDIT_ORIGIN_POINT
inRange(mouse, p, half) ==
    /\ mouse.x > p.x - half
    /\ mouse.x < p.x + half
    /\ mouse.y > p.y - half
    /\ mouse.y < p.y + half

\* ADD_POINTS rejects positions outside the canvas
outsideCanvas(mouse) ==
    \/ mouse.x < 0
    \/ mouse.x > canvasWidth
    \/ mouse.y < 0
    \/ mouse.y > canvasHeight

\* a control whose endpoints are laid down in the opposite order
newControlSwapped(point1, point2) ==
    Control(point1.x + Frac(point2.x - point1.x, 8),
            point1.y + Frac(point2.y - point1.y, 8),
            point1.x + Frac(point2.x - point1.x, 2),
            point1.y + Frac(point2.y - point1.y, 2))

\* the control synthesised between the last two points
newControl(point1, point2) ==
    Control(point1.x + Frac(point2.x - point1.x, 2),
            point1.y + Frac(point2.y - point1.y, 2),
            point1.x + Frac(point2.x - point1.x, 8),
            point1.y + Frac(point2.y - point1.y, 8))

\* ADD_POINTS: push the point, then the control when it is not the first point
addPoint(g, mouse) ==
    LET points == Append(g.points, Point(mouse.x, mouse.y))
        n == Len(points)
    IN IF n > 1
       THEN [g EXCEPT !.points = points,
                      !.controls = Append(@, newControl(points[n - 1], points[n]))]
       ELSE [g EXCEPT !.points = points]

\* a search that does not leave the loop at a hit: the last hit is kept
RECURSIVE searchPointsLast(_, _, _, _)
searchPointsLast(points, i, mouse, half) ==
    IF i >= Len(points) THEN None
    ELSE LET later == searchPointsLast(points, i + 1, mouse, half)
         IN IF later # None THEN later
            ELSE IF inRange(mouse, At(points, i), half) THEN Some(i)
            ELSE None

\* EDIT_POINTS: the loop over points, leaving at the first hit
RECURSIVE searchPoints(_, _, _, _)
searchPoints(points, i, mouse, half) ==
    IF i >= Len(points) THEN None
    ELSE IF inRange(mouse, At(points, i), half) THEN Some(i)
    ELSE searchPoints(points, i + 1, mouse, half)

\* EDIT_CONTROLS: the nested loop; break leaves the inner loop only
RECURSIVE searchControls(_, _, _, _, _)
searchControls(controls, i, mouse, half, found) ==
    IF i >= Len(controls) THEN found
    ELSE LET points == At(controls, i).points
             hit == IF inRange(mouse, points[1], half) THEN <<i, 0>>
                    ELSE IF inRange(mouse, points[2], half) THEN <<i, 1>>
                    ELSE found
         IN searchControls(controls, i + 1, mouse, half, hit)

noGroupMessage ==
    "Cannot add point; Please create or select a curve group before adding points."

\* an origin pick that forgets which tool is active
pickOriginAnyTool(tool, mouse, origin) == inRange(mouse, origin, originSizeHalf)

\* EDIT_ORIGIN_POINT: the pointer is within the origin marker
pickOrigin(tool, mouse, origin) ==
    /\ tool = EDIT_ORIGIN_POINT
    /\ inRange(mouse, origin, originSizeHalf)

\* ADD_POINTS without an active group hands the message to setMessage
downMessage(tool, active, shown) ==
    IF tool = ADD_POINTS /\ active = None THEN Some(noGroupMessage) ELSE shown

handleMouseDown ==
    LET mouse == mousePos
        half == display.pointRangeHalf
        returnsEarly ==
            \/ activeTool \in {ADD_POINTS, EDIT_POINTS, EDIT_CONTROLS}
                  /\ activeCurveGroup = None
            \/ activeTool = ADD_POINTS /\ outsideCanvas(mouse)
        hitPoint ==
            IF activeTool = EDIT_POINTS /\ activeCurveGroup # None
            THEN searchPoints(ActiveGroup.points, 0, mouse, half)
            ELSE None
        hitControl ==
            IF activeTool = EDIT_CONTROLS /\ activeCurveGroup # None
            THEN searchControls(ActiveGroup.controls, 0, mouse, half, None)
            ELSE None
        hitOrigin == pickOrigin(activeTool, mouse, originPos)
    IN \* bound of the model: a group holds at most MaxPoints points
       /\ activeTool = ADD_POINTS /\ ~returnsEarly
             => Len(ActiveGroup.points) < MaxPoints
       /\ heap' = IF activeTool = ADD_POINTS /\ ~returnsEarly
                  THEN [heap EXCEPT ![activeCurveGroup[1]] = addPoint(@, mouse)]
                  ELSE heap
       /\ message' = downMessage(activeTool, activeCurveGroup, message)
       /\ dragPoint' = IF hitPoint # None THEN hitPoint ELSE dragPoint
       /\ dragControl' = IF hitControl # None THEN hitControl ELSE dragControl
       /\ dragOrigin' = (dragOrigin \/ hitOrigin)
       /\ dragStart' = IF hitPoint # None \/ hitControl # None \/ hitOrigin
                       THEN Some(mouse) ELSE dragStart
       /\ reference' = IF returnsEarly THEN reference
                       ELSE refOnMouseDown(reference, activeTool, mouse)
       /\ UNCHANGED <<curveGroups, activeCurveGroup, originPos, display,
                      activeTool, mousePos, running, storage, failureLogged>>

\* point.x += deltaX; point.y += deltaY
moved(p, deltaX, deltaY) == Point(p.x + deltaX, p.y + deltaY)

\* EDIT_POINTS pointer-up: the drag is committed into the active group
commitPoint(g, index, deltaX, deltaY) ==
    [g EXCEPT !.points[index + 1] = moved(@, deltaX, deltaY)]

\* EDIT_CONTROLS pointer-up
commitControl(g, controlIndex, pointIndex, deltaX, deltaY) ==
    [g EXCEPT !.controls[controlIndex + 1].points[pointIndex + 1] =
                  moved(@, deltaX, deltaY)]

\* the tool's case of handleMouseUp finds a drag of its own kind to commit
upCommits ==
    \/ activeTool = EDIT_POINTS /\ activeCurveGroup # None /\ dragPoint # None
    \/ activeTool = EDIT_CONTROLS /\ activeCurveGroup # None /\ dragControl # None
    \/ activeTool = EDIT_ORIGIN_POINT /\ dragOrigin

\* handleMouseUp leaves through the early return of EDIT_POINTS / EDIT_CONTROLS
upReturnsEarly ==
    \/ activeTool = EDIT_POINTS /\ (activeCurveGroup = None \/ dragPoint = None)
    \/ activeTool = EDIT_CONTROLS /\ (activeCurveGroup = None \/ dragControl = None)

\* handleMouseUp throws a TypeError: dragStart is null, or the looked-up
\* point / control is undefined
upThrows ==
    /\ upCommits
    /\ \/ dragStart = None
       \/ activeTool = EDIT_POINTS /\ dragPoint[1] >= Len(ActiveGroup.points)
       \/ activeTool = EDIT_CONTROLS
             /\ dragControl[1] >= Len(ActiveGroup.controls)

\* bound of the model: every committed coordinate lies in 0..MaxCoord
inBox(p) == p.x \in 0..MaxCoord /\ p.y \in 0..MaxCoord

groupInBox(g) ==
    /\ \A i \in 1..Len(g.points) : inBox(g.points[i])
    /\ \A i \in 1..Len(g.controls) :
          inBox(g.controls[i].points[1]) /\ inBox(g.controls[i].points[2])

handleMouseUp ==
    LET mouse == mousePos
        commits == upCommits /\ ~upThrows
        deltaX == mouse.x - dragStart[1].x
        deltaY == mouse.y - dragStart[1].y
    IN /\ heap' =
             IF commits /\ activeTool = EDIT_POINTS
             THEN [heap EXCEPT ![activeCurveGroup[1]] =
                      commitPoint(@, dragPoint[1], deltaX, deltaY)]
             ELSE IF commits /\ activeTool = EDIT_CONTROLS
             THEN [heap EXCEPT ![activeCurveGroup[1]] =
                      commitControl(@, dragControl[1], dragControl[2],
                                    deltaX, deltaY)]
             ELSE heap
       /\ originPos' = IF commits /\ activeTool = EDIT_ORIGIN_POINT
                       THEN moved(originPos, deltaX, deltaY) ELSE originPos
       /\ dragPoint' = IF commits /\ activeTool = EDIT_POINTS
                       THEN None ELSE dragPoint
       /\ dragControl' = IF commits /\ activeTool = EDIT_CONTROLS
                         THEN None ELSE dragControl
       /\ dragOrigin' = IF commits /\ activeTool = EDIT_ORIGIN_POINT
                        THEN FALSE ELSE dragOrigin
       /\ dragStart' = IF commits THEN None ELSE dragStart
       /\ reference' = IF upReturnsEarly \/ upThrows THEN reference
                       ELSE refOnMouseUp(reference, mouse)
       /\ inBox(originPos')
       /\ inBox(reference'.offset)
       /\ reference'.scale <= MaxScale
       /\ \A o \in DOMAIN heap' : groupInBox(heap'[o])
       /\ UNCHANGED <<curveGroups, activeCurveGroup, display, activeTool,
                      mousePos, running, storage, message, failureLogged>>

-----------------------------------------------------------------------------
(* The per-frame update pass *)

\* where the pass draws point j of group g: the dragged point of the group
\* whose id is the active one is drawn with the drag delta
drawnPoint(g, j) ==
    IF ActiveGroupId = Some(g.id) /\ activeTool = EDIT_POINTS
           /\ dragPoint = Some(j)
    THEN moved(At(g.points, j), mousePos.x - dragStart[1].x,
               mousePos.y - dragStart[1].y)
    ELSE At(g.points, j)

\* the endpoints of control index with the drag delta on the dragged one
getEditControlPoints(points, index) ==
    IF dragControl # None /\ dragControl[1] = index
    THEN LET deltaX == mousePos.x - dragStart[1].x
             deltaY == mousePos.y - dragStart[1].y
         IN IF dragControl[2] = 0
            THEN <<moved(points[1], deltaX, deltaY), points[2]>>
            ELSE <<points[1], moved(points[2], deltaX, deltaY)>>
    ELSE points

\* where the pass draws the endpoints of control j of group g
drawnControl(g, j) ==
    IF ActiveGroupId = Some(g.id) /\ activeTool = EDIT_CONTROLS
    THEN getEditControlPoints(At(g.controls, j).points, j)
    ELSE At(g.controls, j).points

\* where the pass draws the origin cross under EDIT_ORIGIN_POINT
drawnOrigin ==
    IF dragOrigin
    THEN moved(originPos, mousePos.x - dragStart[1].x,
               mousePos.y - dragStart[1].y)
    ELSE originPos

\* the pass reads the x of a null dragStart, or the points of a missing control
updateThrows ==
    \/ \E i \in 1..Len(curveGroups) :
          LET g == heap[curveGroups[i]]
              active == ActiveGroupId = Some(g.id)
          IN \/ \E j \in 0..(Len(g.points) - 1) :
                   \/ /\ active
                      /\ activeTool = EDIT_POINTS
                      /\ dragPoint = Some(j)
                      /\ dragStart = None
                   \/ j > 0 /\ j - 1 >= Len(g.controls)
                   \/ /\ active
                      /\ j > 0
                      /\ activeTool = EDIT_CONTROLS
                      /\ dragControl # None
                      /\ dragControl[1] = j - 1
                      /\ dragStart = None
             \/ /\ Len(g.points) # 0
                /\ active
                /\ activeTool = EDIT_CONTROLS
                /\ dragControl # None
                /\ dragControl[1] < Len(g.controls)
                /\ dragStart = None
    \/ activeTool = EDIT_ORIGIN_POINT /\ dragOrigin /\ dragStart = None

\* a pass that writes the preview of a dragged point back into the group
updateCommitsPreview ==
    /\ running
    /\ running' = ~updateThrows
    /\ heap' = IF /\ activeTool = EDIT_POINTS
                  /\ activeCurveGroup # None
                  /\ dragPoint # None
                  /\ dragStart # None
                  /\ dragPoint[1] < Len(ActiveGroup.points)
               THEN [heap EXCEPT ![activeCurveGroup[1]] =
                        commitPoint(@, dragPoint[1],
                                    mousePos.x - dragStart[1].x,
                                    mousePos.y - dragStart[1].y)]
               ELSE heap
    /\ failureLogged' = (failureLogged \/ updateThrows)
    /\ UNCHANGED <<curveGroups, activeCurveGroup, originPos, display,
                   dragStart, dragPoint, dragControl, dragOrigin, reference,
                   activeTool, mousePos, storage, message>>

\* one pass of MainLoop; the catch stops the loop and logs the failure
update ==
    /\ running
    /\ running' = ~updateThrows
    /\ failureLogged' = (failureLogged \/ updateThrows)
    /\ UNCHANGED <<heap, curveGroups, activeCurveGroup, originPos, display,
                   dragStart, dragPoint, dragControl, dragOrigin, reference,
                   activeTool, mousePos, storage, message>>

handleVisibilityChange(visible) ==
    /\ running' = visible
    /\ UNCHANGED <<heap, curveGroups, activeCurveGroup, originPos, display,
                   dragStart, dragPoint, dragControl, dragOrigin, reference,
                   activeTool, mousePos, storage, message, failureLogged>>

-----------------------------------------------------------------------------
(* Reference image and display setters *)

setReferenceData(data) ==
    /\ reference' = refSetData(reference, data)
    /\ UNCHANGED <<heap, curveGroups, activeCurveGroup, originPos, display,
                   dragStart, dragPoint, dragControl, dragOrigin, activeTool,
                   mousePos, running, storage, message, failureLogged>>

deleteReferenceData ==
    /\ reference' = refClearData(reference)
    /\ UNCHANGED <<heap, curveGroups, activeCurveGroup, originPos, display,
                   dragStart, dragPoint, dragControl, dragOrigin, activeTool,
                   mousePos, running, storage, message, failureLogged>>

resetReferenceTransforms ==
    /\ reference' = refResetTransforms(reference)
    /\ UNCHANGED <<heap, curveGroups, activeCurveGroup, originPos, display,
                   dragStart, dragPoint, dragControl, dragOrigin, activeTool,
                   mousePos, running, storage, message, failureLogged>>

\* the decode of image.src completes: this.image.onload
imageOnload ==
    /\ reference.image.state = "loading"
    /\ reference' = [reference EXCEPT !.image.state = "loaded", !.ready = TRUE]
    /\ UNCHANGED <<heap, curveGroups, activeCurveGroup, originPos, display,
                   dragStart, dragPoint, dragControl, dragOrigin, activeTool,
                   mousePos, running, storage, message, failureLogged>>

setReferenceOpacity(value) ==
    /\ reference' = [reference EXCEPT !.opacity = value]
    /\ UNCHANGED <<heap, curveGroups, activeCurveGroup, originPos, display,
                   dragStart, dragPoint, dragControl, dragOrigin, activeTool,
                   mousePos, running, storage, message, failureLogged>>

setReferenceColor(value) ==
    /\ reference' = [reference EXCEPT !.color = value]
    /\ UNCHANGED <<heap, curveGroups, activeCurveGroup, originPos, display,
                   dragStart, dragPoint, dragControl, dragOrigin, activeTool,
                   mousePos, running, storage, message, failureLogged>>

\* this[key] = value
assignProperty(d, key, value) == [d EXCEPT ![key] = value]

setProperty(key, value) ==
    /\ display' = assignProperty(display, key, value)
    /\ UNCHANGED <<heap, curveGroups, activeCurveGroup, originPos, dragStart,
                   dragPoint, dragControl, dragOrigin, reference, activeTool,
                   mousePos, running, storage, message, failureLogged>>

setPointRange(value) ==
    /\ display' = [display EXCEPT !.pointRange = value,
                                  !.pointRangeHalf = Half(value)]
    /\ UNCHANGED <<heap, curveGroups, activeCurveGroup, originPos, dragStart,
                   dragPoint, dragControl, dragOrigin, reference, activeTool,
                   mousePos, running, storage, message, failureLogged>>

setPointSize(value) ==
    /\ display' = [display EXCEPT !.pointSize = value,
                                  !.pointSizeHalf = Half(value)]
    /\ UNCHANGED <<heap, curveGroups, activeCurveGroup, originPos, dragStart,
                   dragPoint, dragControl, dragOrigin, reference, activeTool,
                   mousePos, running, storage, message, failureLogged>>

-----------------------------------------------------------------------------
(* Snapshots: saveState, loadState and the load on page load *)

\* the keys loadState hands to setProperty, in its order
remainingKeys ==
    <<"lineWidth", "pointRange", "pointSize", "activeOpacity", "inactiveOpacity",
      "mainColor", "controlColor", "originColor", "outputPrecision">>

TopKeys ==
    {"originPos", "curveGroups", "activeGroupId", "reference", "activeTool"}
        \cup Range(remainingKeys)

\* state[key] !== undefined
has(state, key) == key \in DOMAIN state

\* encoded byte size of a payload (new Blob([data]).size)
BlobSize(data) ==
    IF data = "imgA" THEN 1000
    ELSE IF data = "imgBig" THEN 5000000
    ELSE 0

\* ReferenceImage.getSaveData: size is the byte size divided by 1_000_000
getSaveData(ref) ==
    LET size == BlobSize(ref.data) \div 1000000
    IN IF size < 4000000 THEN ref.data ELSE ""

\* a group as plain data
plainGroup(g) ==
    [id |-> g.id,
     points |-> g.points,
     controls |-> [i \in 1..Len(g.controls) |->
                      [x1 |-> g.controls[i].points[1].x,
                       y1 |-> g.controls[i].points[1].y,
                       x2 |-> g.controls[i].points[2].x,
                       y2 |-> g.controls[i].points[2].y]]]

\* the object literal saveState builds, by key
saveValue(key) ==
    CASE key = "originPos" -> originPos
      [] key = "curveGroups" ->
            [i \in 1..Len(curveGroups) |-> plainGroup(heap[curveGroups[i]])]
      [] key = "activeGroupId" -> ActiveGroup.id
      [] key = "reference" ->
            [scale |-> reference.scale,
             offset |-> reference.offset,
             opacity |-> reference.opacity,
             color |-> reference.color,
             data |-> getSaveData(reference)]
      [] key = "activeTool" -> activeTool
      [] OTHER -> display[key]

\* JSON.stringify leaves out a key whose value is undefined
savedKeys ==
    IF activeCurveGroup = None THEN TopKeys \ {"activeGroupId"} ELSE TopKeys

\* the snapshot saveState writes (the timestamp, which loadState never reads,
\* is left out)
saveData == [key \in savedKeys |-> saveValue(key)]

savedMessage == "Successfully saved state"
failedMessage == "Failed to save the state; check the console for more info"

\* the value saveState returns: true at the end of the try block, false after
\* the catch
saveStateReturns(threw) == IF threw THEN FALSE ELSE TRUE

\* a failed save that also drops the entry stored before
saveStateDropsEntry(threw) ==
    /\ storage' = IF threw THEN None ELSE Some(saveData)
    /\ message' = Some(IF threw THEN failedMessage ELSE savedMessage)
    /\ UNCHANGED <<heap, curveGroups, activeCurveGroup, originPos, display,
                   dragStart, dragPoint, dragControl, dragOrigin, reference,
                   activeTool, mousePos, running, failureLogged>>

\* saveState when localStorage.setItem throws (threw, e.g. the quota is
\* exceeded) or stores the entry
saveStateResult(threw) ==
    /\ storage' = IF threw THEN storage ELSE Some(saveData)
    /\ message' = Some(IF threw THEN failedMessage ELSE savedMessage)
    /\ UNCHANGED <<heap, curveGroups, activeCurveGroup, originPos, display,
                   dragStart, dragPoint, dragControl, dragOrigin, reference,
                   activeTool, mousePos, running, failureLogged>>

saveState == \E threw \in BOOLEAN : saveStateResult(threw)

\* new CurveGroup(group.id) with Point and Control instances
groupInstance(group) ==
    [id |-> group.id,
     points |-> group.points,
     controls |-> [i \in 1..Len(group.controls) |->
                      Control(group.controls[i].x1, group.controls[i].y1,
                              group.controls[i].x2, group.controls[i].y2)]]

\* the reference fields of a snapshot, applied through the setters
loadReference(ref, r) ==
    LET set == [ref EXCEPT !.scale = r.scale,
                           !.offset = Point(r.offset.x, r.offset.y),
                           !.opacity = r.opacity,
                           !.color = r.color]
    IN IF r.data # "" THEN refSetData(set, r.data) ELSE set

\* the remaining keys, each through setProperty when present
RECURSIVE loadRemaining(_, _, _)
loadRemaining(d, state, keys) ==
    IF keys = <<>> THEN d
    ELSE LET key == Head(keys)
             next == IF has(state, key)
                     THEN assignProperty(d, key, state[key]) ELSE d
         IN loadRemaining(next, state, Tail(keys))

\* the fields loadState leaves, applied to any editor
loadOriginPos(state, origin) ==
    IF has(state, "originPos") THEN state["originPos"] ELSE origin

\* the object ids of the instances loadState creates
loadedIds(state, active) == Fresh(Len(state["curveGroups"]), Range(active))

loadGroups(state, groups, active) ==
    IF has(state, "curveGroups") THEN loadedIds(state, active) ELSE groups

loadHeap(state, h, active) ==
    IF has(state, "curveGroups")
    THEN LET ids == loadedIds(state, active)
         IN [o \in Range(ids) \cup Range(active) |->
                IF o \in Range(active) THEN h[o]
                ELSE LET i == CHOOSE k \in 1..Len(ids) : ids[k] = o
                     IN groupInstance(state["curveGroups"][i])]
    ELSE h

loadActive(state, groups, h, active) ==
    IF has(state, "activeGroupId")
    THEN resolveActive(groups, h, active, state["activeGroupId"])
    ELSE active

\* a load that falls back to the initial tool when the key is absent
loadToolOrDefault(state, tool) ==
    IF has(state, "activeTool") THEN state["activeTool"] ELSE TRANSFORM_REFERENCE

loadTool(state, tool) ==
    IF has(state, "activeTool") THEN state["activeTool"] ELSE tool

loadRef(state, ref) ==
    IF has(state, "reference") THEN loadReference(ref, state["reference"]) ELSE ref

loadState(state) ==
    /\ LET groups == loadGroups(state, curveGroups, activeCurveGroup)
           h == loadHeap(state, heap, activeCurveGroup)
           active == loadActive(state, groups, h, activeCurveGroup)
       IN /\ curveGroups' = groups
          /\ activeCurveGroup' = active
          /\ heap' = Collect(h, groups, active)
    /\ originPos' = loadOriginPos(state, originPos)
    /\ reference' = loadRef(state, reference)
    /\ activeTool' = loadTool(state, activeTool)
    /\ display' = loadRemaining(display, state, remainingKeys)
    /\ UNCHANGED <<dragStart, dragPoint, dragControl, dragOrigin, mousePos,
                   running, storage, message, failureLogged>>

\* the stored snapshot is loaded into the running editor
loadStored ==
    /\ storage # None
    /\ loadState(storage[1])

\* The page is loaded again: the module and the DrawingHelper are constructed
\* afresh, and App's effect loads the stored snapshot when there is one.
reload ==
    /\ LET state == IF storage = None THEN <<>> ELSE storage[1]
           groups == loadGroups(state, <<>>, None)
           h == loadHeap(state, <<>>, None)
           active == loadActive(state, groups, h, None)
       IN /\ curveGroups' = groups
          /\ activeCurveGroup' = active
          /\ heap' = Collect(h, groups, active)
          /\ originPos' = loadOriginPos(state, Point(0, 0))
          /\ reference' = loadRef(state, ReferenceImage)
          /\ activeTool' = loadTool(state, TRANSFORM_REFERENCE)
          /\ display' = loadRemaining(DisplayDefaults, state, remainingKeys)
    /\ dragStart' = None
    /\ dragPoint' = None
    /\ dragControl' = None
    /\ dragOrigin' = FALSE
    /\ mousePos' = Point(0, 0)
    /\ running' = TRUE
    /\ message' = None
    /\ failureLogged' = FALSE
    /\ UNCHANGED storage

-----------------------------------------------------------------------------
(* Exports: getSVGString, getJSONString and the App handler that copies them *)

\* ExportFormats and JSONFormats
SVG == "svg"
JSON == "json"
COORDS == "coords"
ANGLE_DIST == "angledist"

\* value.toFixed(precision): the decimal text of value with precision
\* fraction digits, kept as the number and its count of digits
toFixed(value, precision) == [value |-> value, digits |-> precision]

\* Math.atan2(y, x) and Math.sqrt(s), kept symbolically by their arguments
atan2(y, x) == [atan2 |-> <<y, x>>]
sqrt(s) == [sqrt |-> s]

getPointDistance(point1, point2) ==
    LET a == point1.x - point2.x
        b == point1.y - point2.y
    IN sqrt(a * a + b * b)

\* coordinates written x first
getSVGCoordsXY(p, precision) ==
    <<toFixed(p.x, precision), toFixed(p.y, precision)>>

\* `${y.toFixed(precision)} ${x.toFixed(precision)}`: the two numbers of
\* the text, in its order
getSVGCoords(p, precision) ==
    <<toFixed(p.y, precision), toFixed(p.x, precision)>>

\* coordinates written as stored, the origin left out
getJSONCoordsAbsolute(p, origin, precision) ==
    <<toFixed(p.x, precision), toFixed(p.y, precision)>>

getJSONCoords(p, origin, precision) ==
    <<toFixed(p.x - origin.x, precision), toFixed(p.y - origin.y, precision)>>

\* the commands of one path: M for points[0], then one C per further point
pathData(g, precision) ==
    <<[cmd |-> "M", coords |-> <<getSVGCoords(g.points[1], precision)>>]>>
        \o [i \in 1..(Len(g.points) - 1) |->
              [cmd |-> "C",
               coords |-> <<getSVGCoords(g.controls[i].points[1], precision),
                            getSVGCoords(g.controls[i].points[2], precision),
                            getSVGCoords(g.points[i + 1], precision)>>]]

\* groups as the update pass draws them: the dragged point of the active
\* group moved by the pointer's distance from the anchor
exportedGroupsPreview ==
    [i \in 1..Len(curveGroups) |->
        LET g == heap[curveGroups[i]]
        IN IF /\ activeCurveGroup = Some(curveGroups[i])
              /\ dragPoint # None
              /\ dragStart # None
              /\ dragPoint[1] < Len(g.points)
           THEN commitPoint(g, dragPoint[1], mousePos.x - dragStart[1].x,
                            mousePos.y - dragStart[1].y)
           ELSE g]

\* the groups an export walks, in collection order
exportedGroups == [i \in 1..Len(curveGroups) |-> heap[curveGroups[i]]]

\* an export that keeps every group with a point
drawnGroupsAnyPoint(groups) ==
    LET drawn(g) == Len(g.points) > 0 IN SelectSeq(groups, drawn)

\* curveGroups.filter((group) => group.points.length > 1)
drawnGroups(groups) ==
    LET drawn(g) == Len(g.points) > 1 IN SelectSeq(groups, drawn)

\* the svg document: its viewBox and its path elements, in order
getSVGString ==
    LET groups == drawnGroups(exportedGroups)
    IN [viewBox |-> <<0, 0, canvasWidth, canvasHeight>>,
        paths |-> [i \in 1..Len(groups) |->
                      pathData(groups[i], display.outputPrecision)]]

\* one group of the COORDS export
coordsGroup(g, origin, precision) ==
    [points |-> [i \in 1..Len(g.points) |->
                    LET c == getJSONCoords(g.points[i], origin, precision)
                    IN [x |-> c[1], y |-> c[2]]],
     controls |-> [i \in 1..Len(g.controls) |->
                    LET c1 == getJSONCoords(g.controls[i].points[1], origin,
                                            precision)
                        c2 == getJSONCoords(g.controls[i].points[2], origin,
                                            precision)
                    IN [x1 |-> c1[1], y1 |-> c1[2],
                        x2 |-> c2[1], y2 |-> c2[2]]]]

\* angle and distance of a point as seen from the origin
angleDist(p, origin, precision) ==
    <<toFixed(atan2(p.y - origin.y, p.x - origin.x), precision),
      toFixed(getPointDistance(p, origin), precision)>>

\* one group of the ANGLE_DIST export
angleDistGroup(g, origin, precision) ==
    [points |-> [i \in 1..Len(g.points) |->
                    angleDist(g.points[i], origin, precision)],
     controls |-> [i \in 1..Len(g.controls) |->
                    angleDist(g.controls[i].points[1], origin, precision)
                        \o angleDist(g.controls[i].points[2], origin,
                                     precision)]]

\* the JSON document: None stands for undefined, returned for a format that
\* is neither COORDS nor ANGLE_DIST
getJSONString(jsonFormat) ==
    IF jsonFormat = COORDS
    THEN Some([i \in 1..Len(curveGroups) |->
                  coordsGroup(exportedGroups[i], originPos,
                              display.outputPrecision)])
    ELSE IF jsonFormat = ANGLE_DIST
    THEN Some([i \in 1..Len(curveGroups) |->
                  angleDistGroup(exportedGroups[i], originPos,
                                 display.outputPrecision)])
    ELSE None

\* App's copy button: the export is computed and copied, and the message
\* names what was copied
handleCopyClipboardClick(exportFormat, jsonFormat) ==
    /\ exportFormat \in {SVG, JSON}
    /\ message' = Some(IF exportFormat = SVG
                       THEN "Copied SVG to clipboard"
                       ELSE "Copied JSON to clipboard")
    /\ UNCHANGED <<heap, curveGroups, activeCurveGroup, originPos, display,
                   dragStart, dragPoint, dragControl, dragOrigin, reference,
                   activeTool, mousePos, running, storage, failureLogged>>

-----------------------------------------------------------------------------
(* Specifications *)

\* pointer positions: PosA is where the pointer starts; a control between
\* points at PosA and PosB has its endpoints within pick range of them
PosA == Point(0, 0)
PosB == Point(25, 5)
Positions == {PosA, PosB}

\* PosC lies inside the decoded image at offset (0, 0), outside its scale
\* markers; PosB lies inside its top-left scale marker
PosC == Point(40, 5)

EditIds == {"a"}
PairIds == {"a", "b"}

\* editing one group: tools, pointer input and the update pass
NextEdit ==
    \/ \E id \in EditIds : createGroup(id)
    \/ \E id \in EditIds : deleteGroup(id)
    \/ \E id \in EditIds : setActiveGroupId(id)
    \/ deleteLastPoint
    \/ syncLastPoint
    \/ \E value \in ToolTypes : setActiveTool(value)
    \/ \E pos \in Positions : handleMouseMove(pos)
    \/ handleMouseDown
    \/ handleMouseUp
    \/ update

SpecEdit == Init /\ [][NextEdit]_vars

\* adding and deleting points in two groups
NextPoints ==
    \/ \E id \in PairIds : createGroup(id)
    \/ \E id \in PairIds : deleteGroup(id)
    \/ \E id \in PairIds : setActiveGroupId(id)
    \/ deleteLastPoint
    \/ syncLastPoint
    \/ setActiveTool(ADD_POINTS)
    \* (-5, 5) lies left of the canvas, (100, 0) a hundred units right of PosA
    \/ \E pos \in Positions \cup {Point(-5, 5), Point(100, 0)} :
          handleMouseMove(pos)
    \/ handleMouseDown

SpecPoints == Init /\ [][NextPoints]_vars

\* every kind of drag, never released: a point, a control endpoint, the
\* origin and the image
NextDrag ==
    \/ \E id \in EditIds : createGroup(id)
    \/ \E value \in ToolTypes : setActiveTool(value)
    \/ \E pos \in Positions \cup {PosC} : handleMouseMove(pos)
    \/ handleMouseDown
    \/ update
    \/ setReferenceData("imgA")
    \/ imageOnload

SpecDrag == Init /\ [][NextDrag]_vars

\* snapshots handed to loadState
GroupA ==
    [id |-> "a",
     points |-> <<PosA, PosB>>,
     controls |-> <<[x1 |-> 5, y1 |-> 1, x2 |-> 20, y2 |-> 4]>>]

GroupB == [id |-> "b", points |-> <<PosB>>, controls |-> <<>>]

GroupSnapshots ==
    {[curveGroups |-> <<>>],
     [curveGroups |-> <<GroupA>>],
     [curveGroups |-> <<GroupB, GroupA>>, activeGroupId |-> "a"],
     [curveGroups |-> <<GroupB>>, activeGroupId |-> "a"],
     [activeGroupId |-> "c"]}

\* exports and saves taken before, during and after drags
NextExport ==
    \/ \E id \in EditIds : createGroup(id)
    \/ \E value \in {ADD_POINTS, EDIT_POINTS, EDIT_ORIGIN_POINT} :
          setActiveTool(value)
    \/ \E pos \in Positions : handleMouseMove(pos)
    \/ handleMouseDown
    \/ \E exportFormat \in {SVG, JSON}, jsonFormat \in {COORDS, ANGLE_DIST} :
          handleCopyClipboardClick(exportFormat, jsonFormat)
    \/ saveState

SpecExport == Init /\ [][NextExport]_vars

\* exports of two groups drawn around an origin that can be moved
NextOutput ==
    \/ \E id \in PairIds : createGroup(id)
    \/ \E id \in PairIds : setActiveGroupId(id)
    \/ \E value \in {ADD_POINTS, EDIT_ORIGIN_POINT} : setActiveTool(value)
    \/ \E pos \in Positions : handleMouseMove(pos)
    \/ handleMouseDown
    \/ handleMouseUp
    \/ \E exportFormat \in {SVG, JSON} :
          handleCopyClipboardClick(exportFormat, COORDS)

SpecOutput == Init /\ [][NextOutput]_vars

\* pointer positions of a scaling drag anchored at PosB: (25, 55) and
\* PosDown1000 lie 50 and 1000 units below the anchor, PosC level with it
\* and PosA five units above
PosDown1000 == Point(25, 1005)

\* moving and scaling the decoded reference image
NextScale ==
    \/ setReferenceData("imgA")
    \/ imageOnload
    \/ resetReferenceTransforms
    \/ \E pos \in {PosA, PosB, PosC, Point(25, 55), PosDown1000} :
          handleMouseMove(pos)
    \/ handleMouseDown
    \/ handleMouseUp
    \/ update

SpecScale == Init /\ [][NextScale]_vars

\* the frame scheduler: passes of the loop, the page being hidden and shown
\* again, and the drags whose leftovers make a pass fail
NextFrame ==
    \/ \E id \in EditIds : createGroup(id)
    \/ \E value \in {ADD_POINTS, EDIT_POINTS, EDIT_ORIGIN_POINT} :
          setActiveTool(value)
    \/ \E pos \in Positions : handleMouseMove(pos)
    \/ handleMouseDown
    \/ handleMouseUp
    \/ update
    \/ \E visible \in BOOLEAN : handleVisibilityChange(visible)

SpecFrame == Init /\ [][NextFrame]_vars

\* a snapshot that carries the tool and one that does not
ToolSnapshots == {[activeTool |-> EDIT_ORIGIN_POINT], [curveGroups |-> <<>>]}

\* every operation of the editor next to the two that set the tool
NextTool ==
    \/ \E id \in EditIds : createGroup(id)
    \/ \E id \in EditIds : deleteGroup(id)
    \/ \E id \in EditIds : setActiveGroupId(id)
    \/ deleteLastPoint
    \/ syncLastPoint
    \/ \E value \in {ADD_POINTS, DELETE_POINTS} : setActiveTool(value)
    \/ \E pos \in Positions : handleMouseMove(pos)
    \/ handleMouseDown
    \/ handleMouseUp
    \/ update
    \/ \E exportFormat \in {SVG, JSON} :
          handleCopyClipboardClick(exportFormat, COORDS)
    \/ saveState
    \/ loadStored
    \/ \E state \in ToolSnapshots : loadState(state)

SpecTool == Init /\ [][NextTool]_vars

\* a saved group of three points, the last on top of the first: its two
\* controls have endpoints on top of each other at (5,1) and at (20,4)
TriSnapshot ==
    [curveGroups |->
         <<[id |-> "a",
            points |-> <<PosA, PosB, PosA>>,
            controls |-> <<[x1 |-> 5, y1 |-> 1, x2 |-> 20, y2 |-> 4],
                           [x1 |-> 20, y1 |-> 4, x2 |-> 5, y2 |-> 1]>>]>>,
     activeGroupId |-> "a",
     activeTool |-> EDIT_CONTROLS]

\* picking and dragging the points and control endpoints of a loaded group
NextPick ==
    \/ loadState(TriSnapshot)
    \/ \E value \in {EDIT_POINTS, EDIT_CONTROLS} : setActiveTool(value)
    \/ \E pos \in Positions \cup {PosC} : handleMouseMove(pos)
    \/ handleMouseDown
    \/ handleMouseUp
    \/ update

SpecPick == Init /\ [][NextPick]_vars

\* point drags in two groups, the active group being switched at any moment
NextRetarget ==
    \/ \E id \in PairIds : createGroup(id)
    \/ \E id \in PairIds : setActiveGroupId(id)
    \/ \E value \in {ADD_POINTS, EDIT_POINTS} : setActiveTool(value)
    \/ \E pos \in {PosB, PosC} : handleMouseMove(pos)
    \/ handleMouseDown
    \/ handleMouseUp

SpecRetarget == Init /\ [][NextRetarget]_vars

\* a position within the marker at the bottom-right corner of the image at
\* its initial offset and scale
PosE == Point(70, 70)

\* the reference image: its data set, cleared and decoded, and pointer
\* presses and releases under each tool
NextReference ==
    \/ \E data \in ImageData : setReferenceData(data)
    \/ deleteReferenceData
    \/ imageOnload
    \/ \E value \in {TRANSFORM_REFERENCE, EDIT_POINTS, EDIT_ORIGIN_POINT} :
          setActiveTool(value)
    \/ \E pos \in {PosA, PosB, PosC, PosE} : handleMouseMove(pos)
    \/ handleMouseDown
    \/ handleMouseUp

SpecReference == Init /\ [][NextReference]_vars

\* drags of every kind, previewed by the update pass and released under
\* any tool
NextPreview ==
    \/ \E id \in EditIds : createGroup(id)
    \/ \E value \in {TRANSFORM_REFERENCE, ADD_POINTS, DELETE_POINTS, EDIT_POINTS} :
          setActiveTool(value)
    \/ \E pos \in Positions \cup {PosC} : handleMouseMove(pos)
    \/ handleMouseDown
    \/ handleMouseUp
    \/ update
    \/ setReferenceData("imgA")
    \/ imageOnload

SpecPreview == Init /\ [][NextPreview]_vars

\* deleting the last point of one of two groups under every tool
NextDelete ==
    \/ \E id \in PairIds : createGroup(id)
    \/ \E id \in PairIds : setActiveGroupId(id)
    \/ \E value \in ToolTypes : setActiveTool(value)
    \/ \E pos \in {PosA, PosB} : handleMouseMove(pos)
    \/ handleMouseDown
    \/ deleteLastPoint

SpecDelete == Init /\ [][NextDelete]_vars

\* groups: creation, deletion, activation and loading
NextGroups ==
    \/ \E id \in GroupIds : createGroup(id)
    \/ \E id \in GroupIds : deleteGroup(id)
    \/ \E id \in GroupIds : setActiveGroupId(id)
    \/ \E state \in GroupSnapshots : loadState(state)

SpecGroups == Init /\ [][NextGroups]_vars

FullSnapshot ==
    [originPos |-> Point(5, 5),
     curveGroups |-> <<GroupB, GroupA>>,
     activeGroupId |-> "a",
     reference |-> [scale |-> 50, offset |-> Point(5, 0), opacity |-> 0,
                    color |-> "#00ff00", data |-> "imgA"],
     activeTool |-> EDIT_POINTS,
     lineWidth |-> 3,
     pointRange |-> 32,
     pointSize |-> 32,
     activeOpacity |-> 0,
     inactiveOpacity |-> 0,
     mainColor |-> "#000000",
     controlColor |-> "#111111",
     originColor |-> "#222222",
     outputPrecision |-> 3]

\* partial snapshots, by the keys they carry: none, one, all but one, or all
FieldSnapshots ==
    LET SingleKeys == {"originPos", "curveGroups", "activeGroupId",
                       "reference", "activeTool", "pointRange", "lineWidth"}
        KeySets == {{}, TopKeys} \cup {{key} : key \in SingleKeys}
                       \cup {TopKeys \ {key} : key \in TopKeys}
    IN {[key \in K |-> FullSnapshot[key]] : K \in KeySets}

\* partial snapshots loaded into an editor whose fields are being set
NextFields ==
    \/ \E state \in FieldSnapshots : loadState(state)
    \/ setPointRange(8)

SpecFields == Init /\ [][NextFields]_vars

\* saving, and loading what was saved: into the same editor or on page load
NextSave ==
    \/ \E id \in EditIds : createGroup(id)
    \/ setActiveTool(ADD_POINTS)
    \/ \E pos \in Positions : handleMouseMove(pos)
    \/ handleMouseDown
    \/ setPointRange(32)
    \/ \E data \in ImageData : setReferenceData(data)
    \/ saveState
    \/ loadStored
    \/ reload

SpecSave == Init /\ [][NextSave]_vars

-----------------------------------------------------------------------------
(* Properties *)

\* the x-th kind of drag target is active
DragTargets ==
    {k \in {"point", "control", "origin"} :
        \/ k = "point" /\ dragPoint # None
        \/ k = "control" /\ dragControl # None
        \/ k = "origin" /\ dragOrigin}

\* C1: in every group the number of controls is the number of points minus
\* one when the group has a point, and zero when it has none, after any
\* sequence of ADD_POINTS pointer-downs and delete-last-point commands.
C1_ControlsFollowPoints ==
    \A o \in DOMAIN heap :
        Len(heap[o].controls) =
            IF Len(heap[o].points) > 0 THEN Len(heap[o].points) - 1 ELSE 0

\* two groups hold points: one two points and a control, the other one point
C1_Witness ==
    \E o, q \in DOMAIN heap :
        /\ Len(heap[o].points) = 2 /\ Len(heap[o].controls) = 1
        /\ Len(heap[q].points) = 1 /\ Len(heap[q].controls) = 0

\* a drag of a point, a control endpoint, the origin or the image is active
DragInProgress ==
    DragTargets # {} \/ reference.moving \/ reference.scaling

\* the committed coordinates
Committed == <<heap, originPos, reference.offset, reference.scale>>

\* C2: while a drag is in progress, a pointer move or an update pass leaves
\* every committed coordinate unchanged: the points and controls of every
\* group, the origin, the reference offset and scale.
C2_UnreleasedDragKeepsCommitted ==
    [][(/\ DragInProgress
        /\ \/ \E pos \in Positions \cup {PosC} : handleMouseMove(pos)
           \/ update)
       => Committed' = Committed]_vars

\* all four kinds of drag are active, and the pointer has left both anchors
C2_Witness ==
    /\ DragTargets = {"point", "control", "origin"}
    /\ reference.moving
    /\ mousePos # dragStart[1]
    /\ mousePos # reference.dragPosition

\* C3: every pointer-up adds (pointer - anchor) to the committed coordinates
\* of whichever drag target is active and clears the drag target and the
\* anchor, so that after any pointer-up no point, control or origin drag is
\* active, whatever tool switches came between pointer-down and pointer-up.
C3_PointerUpEndsEveryDrag ==
    [][handleMouseUp =>
          /\ dragOrigin /\ dragStart # None
                => originPos' = moved(originPos, mousePos.x - dragStart[1].x,
                                      mousePos.y - dragStart[1].y)
          /\ dragPoint' = None
          /\ dragControl' = None
          /\ dragOrigin' = FALSE
          /\ dragStart' = None]_vars

\* C4: at most one of dragPoint, dragControl and dragOrigin is active.
C4_AtMostOneDragTarget == Cardinality(DragTargets) <= 1

\* C5: deleteGroup(id) clears the active-group reference when the active
\* group has that id and leaves it unchanged otherwise; the groups with
\* another id stay in the collection, unchanged and in their order.
C5_DeleteGroupEffect ==
    [][\A id \in GroupIds :
          deleteGroup(id) =>
            LET IndexOf(groups, o) ==
                    CHOOSE i \in 1..Len(groups) : groups[i] = o
            IN
              /\ ActiveGroupId = Some(id) => activeCurveGroup' = None
              /\ ActiveGroupId # Some(id) => activeCurveGroup' = activeCurveGroup
              /\ Range(curveGroups') =
                    {o \in Range(curveGroups) : heap[o].id # id}
              /\ \A i, j \in 1..Len(curveGroups') :
                    i < j => IndexOf(curveGroups, curveGroups'[i])
                                < IndexOf(curveGroups, curveGroups'[j])
              /\ \A o \in Range(curveGroups') : heap'[o] = heap[o]]_vars

\* the active group was deleted from among three created groups
C5_Witness ==
    /\ activeCurveGroup = None
    /\ Len(curveGroups) = 2
    /\ \A o \in Range(curveGroups) : heap[o].points = <<>>

\* C6: the active-group reference is none or refers to a member of the
\* collection of curve groups.
C6_ActiveGroupIsMember ==
    activeCurveGroup = None \/ activeCurveGroup[1] \in Range(curveGroups)

\* C7: syncLastPoint on an active group with at least two points makes the
\* last point equal to the first, changes nothing else, and a second call
\* changes nothing; otherwise it changes nothing at all.
C7_SyncLastPointEffect ==
    [][syncLastPoint =>
          IF activeCurveGroup # None /\ Len(ActiveGroup.points) >= 2
          THEN LET a == activeCurveGroup[1]
                   n == Len(heap[a].points)
               IN /\ DOMAIN heap' = DOMAIN heap
                  /\ Len(heap'[a].points) = n
                  /\ heap'[a].points[n] = heap[a].points[1]
                  /\ \A i \in 1..(n - 1) : heap'[a].points[i] = heap[a].points[i]
                  /\ heap'[a].controls = heap[a].controls
                  /\ heap'[a].id = heap[a].id
                  /\ \A o \in DOMAIN heap \ {a} : heap'[o] = heap[o]
                  /\ syncGroup(heap'[a]) = heap'[a]
                  /\ UNCHANGED <<curveGroups, activeCurveGroup, originPos,
                                 display, dragStart, dragPoint, dragControl,
                                 dragOrigin, reference, activeTool, mousePos,
                                 running, storage, message, failureLogged>>
          ELSE UNCHANGED vars]_vars

\* the active group's second point, added at PosB, now lies on its first
\* point at PosA, while another group keeps a point at PosB
C7_Witness ==
    /\ activeCurveGroup # None
    /\ ActiveGroup.points = <<PosA, PosA>>
    /\ ActiveGroup.controls = <<newControl(PosA, PosB)>>
    /\ \E o \in DOMAIN heap : heap[o].points = <<PosB>>

\* what a user can observe of the editor
Observable ==
    [groups |-> [i \in 1..Len(curveGroups) |-> heap[curveGroups[i]]],
     originPos |-> originPos,
     activeGroupId |-> ActiveGroupId,
     activeTool |-> activeTool,
     display |-> display,
     reference |-> [scale |-> reference.scale, offset |-> reference.offset,
                    opacity |-> reference.opacity, color |-> reference.color,
                    data |-> reference.data]]

\* C8: loading the snapshot saveState wrote, into the same editor or into a
\* freshly constructed one, restores an observably equivalent editor: groups,
\* origin, active group id, tool, display fields with the effective pick
\* range and point size, reference transform and payload.
C8_RoundTripRestores ==
    [][(storage = Some(saveData) /\ (loadStored \/ reload))
          => Observable' = Observable]_vars

\* C9: loadState leaves unchanged the in-memory state of every top-level
\* field the snapshot does not carry, whatever other fields it carries.
C9_AbsentFieldsKept ==
    [][\A state \in FieldSnapshots :
          loadState(state) =>
            LET KeptField(key) ==
                    CASE key = "originPos" -> originPos' = originPos
                      [] key = "curveGroups" ->
                            /\ curveGroups' = curveGroups
                            /\ \A o \in Range(curveGroups) :
                                  heap'[o] = heap[o]
                      [] key = "activeGroupId" ->
                            activeCurveGroup' = activeCurveGroup
                      [] key = "reference" -> reference' = reference
                      [] key = "activeTool" -> activeTool' = activeTool
                      [] OTHER -> display'[key] = display[key]
            IN \A key \in TopKeys \ DOMAIN state : KeptField(key)]_vars

\* a snapshot without activeTool and pointRange was loaded: the tool moved
\* nowhere and the pick range set before is kept, beside loaded fields
C9_Witness ==
    /\ display.pointRange = 8
    /\ activeTool = TRANSFORM_REFERENCE
    /\ display.lineWidth = 3
    /\ originPos = Point(5, 5)
    /\ Len(curveGroups) = 2

\* C10: an id that resolves to no group leaves the active-group reference
\* as it was: setActiveGroupId changes nothing at all, and loadState keeps
\* the reference and the group it refers to.
C10_UnresolvedIdKeepsActive ==
    [][/\ \A id \in GroupIds :
             (/\ setActiveGroupId(id)
              /\ \A o \in Range(curveGroups) : heap[o].id # id)
                => UNCHANGED vars
       /\ \A state \in GroupSnapshots :
             (/\ loadState(state)
              /\ has(state, "activeGroupId")
              /\ \A o \in Range(curveGroups') :
                    heap'[o].id # state["activeGroupId"])
                => /\ activeCurveGroup' = activeCurveGroup
                   /\ activeCurveGroup # None
                         => heap'[activeCurveGroup[1]] = heap[activeCurveGroup[1]]
      ]_vars

\* a snapshot with group b alone and the unresolved active id a was loaded
\* over an active group, which stays referred to
C10_Witness ==
    /\ activeCurveGroup # None
    /\ activeCurveGroup[1] \notin Range(curveGroups)
    /\ Len(curveGroups) = 1
    /\ heap[curveGroups[1]] = groupInstance(GroupB)

\* the in-memory editor state
Memory ==
    <<heap, curveGroups, activeCurveGroup, originPos, display, dragStart,
      dragPoint, dragControl, dragOrigin, reference, activeTool, mousePos,
      running>>

\* C11: saveState returns true exactly when the store write succeeded; when
\* the write throws it reports the failure message, returns false and leaves
\* the entry stored before and the in-memory editor state unchanged.
C11_SaveReportsOutcome ==
    [][\A threw \in BOOLEAN :
          saveStateResult(threw) =>
              /\ saveStateReturns(threw) <=> ~threw
              /\ saveStateReturns(threw) <=> storage' = Some(saveData)
                                              /\ message' = Some(savedMessage)
              /\ threw => /\ storage' = storage
                          /\ message' = Some(failedMessage)
              /\ Memory' = Memory]_vars

\* a save failed after the editor moved on from the entry stored before,
\* which is still there
C11_Witness ==
    /\ message = Some(failedMessage)
    /\ storage # None
    /\ storage # Some(saveData)

\* the size cap of the specification, in bytes
PayloadCap == 4000000

\* C12: the image payload of a saved snapshot is the stored payload when its
\* encoded size is below 4,000,000 bytes and the empty string otherwise; the
\* save succeeds either way.
C12_PayloadCapped ==
    [][saveStateResult(FALSE) =>
          /\ storage' # None
          /\ storage'[1]["reference"].data =
                IF BlobSize(reference.data) < PayloadCap
                THEN reference.data ELSE ""]_vars

\* C13: a pointer-down in ADD_POINTS mode with no active group reports the
\* message and changes nothing else: no group, no drag state, no reference
\* state.
C13_AddWithoutGroupOnlyReports ==
    [][(handleMouseDown /\ activeTool = ADD_POINTS /\ activeCurveGroup = None)
          => /\ message' = Some(
                   "Cannot add point; Please create or select a curve group before adding points.")
             /\ Memory' = Memory
             /\ storage' = storage]_vars

\* the message was reported with no active group while an origin drag
\* started before is still held
C13_Witness ==
    /\ message = Some(noGroupMessage)
    /\ activeTool = ADD_POINTS
    /\ activeCurveGroup = None
    /\ dragOrigin
    /\ dragStart # None

\* C14: a pointer-down in ADD_POINTS mode with an active group appends a
\* point if and only if the pointer is strictly inside the canvas
\* (0 < x < 1024 and 0 < y < 768); anywhere else, the boundary included,
\* no point and no control is added.
C14_AddOnlyStrictlyInside ==
    [][(handleMouseDown /\ activeTool = ADD_POINTS /\ activeCurveGroup # None)
          => LET a == activeCurveGroup[1]
                 inside == /\ 0 < mousePos.x /\ mousePos.x < 1024
                           /\ 0 < mousePos.y /\ mousePos.y < 768
             IN IF inside
                THEN /\ Len(heap'[a].points) = Len(heap[a].points) + 1
                     /\ heap'[a].points[Len(heap'[a].points)] = mousePos
                ELSE heap' = heap]_vars

\* C15: an accepted ADD_POINTS pointer-down appends exactly one point, at the
\* pointer position, to the active group only; when the group had a point
\* before it also appends exactly one control with endpoints
\* prev + 0.2 * (new - prev) and prev + 0.8 * (new - prev), prev being the
\* point that was last; for the first point no control is added.
C15_AddAppendsPointAndControl ==
    [][(/\ handleMouseDown
        /\ activeTool = ADD_POINTS
        /\ activeCurveGroup # None
        /\ mousePos.x \in 0..canvasWidth
        /\ mousePos.y \in 0..canvasHeight)
          => LET a == activeCurveGroup[1]
                 n == Len(heap[a].points)
                 m == Len(heap[a].controls)
                 new == mousePos
             IN /\ DOMAIN heap' = DOMAIN heap
                /\ \A o \in DOMAIN heap \ {a} : heap'[o] = heap[o]
                /\ heap'[a].id = heap[a].id
                /\ Len(heap'[a].points) = n + 1
                /\ SubSeq(heap'[a].points, 1, n) = heap[a].points
                /\ heap'[a].points[n + 1] = [x |-> new.x, y |-> new.y]
                /\ IF n = 0
                   THEN heap'[a].controls = heap[a].controls
                   ELSE LET prev == heap[a].points[n]
                            c == heap'[a].controls[m + 1].points
                        IN /\ Len(heap'[a].controls) = m + 1
                           /\ SubSeq(heap'[a].controls, 1, m) = heap[a].controls
                           /\ Len(c) = 2
                           /\ 10 * (c[1].x - prev.x) = 2 * (new.x - prev.x)
                           /\ 10 * (c[1].y - prev.y) = 2 * (new.y - prev.y)
                           /\ 10 * (c[2].x - prev.x) = 8 * (new.x - prev.x)
                           /\ 10 * (c[2].y - prev.y) = 8 * (new.y - prev.y)]_vars

\* points (0, 0) and (100, 0) were added to the active group, which got the
\* control (20, 0), (80, 0); another group holds its first point alone
C15_Witness ==
    /\ activeCurveGroup # None
    /\ ActiveGroup.points = <<Point(0, 0), Point(100, 0)>>
    /\ ActiveGroup.controls = <<[points |-> <<Point(20, 0), Point(80, 0)>>]>>
    /\ \E o \in DOMAIN heap :
          Len(heap[o].points) = 1 /\ heap[o].controls = <<>>

\* everything of the editor but the drag state
Settled ==
    <<heap, curveGroups, activeCurveGroup, originPos, display, activeTool,
      reference.data, reference.offset, reference.scale, reference.opacity,
      reference.color>>

\* what the exports and saveState produce in the current state
Outputs ==
    <<getSVGString, getJSONString(COORDS), getJSONString(ANGLE_DIST), saveData>>

\* C16: the SVG export, both JSON exports and saveState read committed state
\* only: a step that changes nothing but the drag state (a pointer-down that
\* starts a drag, a pointer move during it) leaves their output as it was
\* with no drag in progress, and exporting or saving changes no editor
\* state.
C16_ExportsReadCommittedOnly ==
    [][/\ Settled' = Settled => Outputs' = Outputs
       /\ \/ saveState
          \/ \E exportFormat \in {SVG, JSON}, jsonFormat \in {COORDS, ANGLE_DIST} :
                handleCopyClipboardClick(exportFormat, jsonFormat)
          => Memory' = Memory]_vars

\* an export was copied while a point of a two-point group is dragged and
\* the pointer has left the anchor
C16_Witness ==
    /\ message = Some("Copied SVG to clipboard")
    /\ dragPoint # None
    /\ dragStart # None
    /\ mousePos # dragStart[1]
    /\ activeCurveGroup # None
    /\ Len(ActiveGroup.points) = 2
    /\ activeTool = EDIT_POINTS

\* C17: the SVG export has exactly one path per group with more than one
\* point, in collection order, and none for a group with zero or one point;
\* a path is one move to points[0] followed by len(points) - 1 cubic
\* commands, the i-th using the two endpoints of controls[i - 1] and ending
\* at points[i].
C17_OnePathPerDrawnGroup ==
    LET paths == getSVGString.paths
        group(i) == heap[curveGroups[i]]
        q == {i \in 1..Len(curveGroups) : Len(group(i).points) > 1}
        rank(i) == Cardinality({j \in q : j <= i})
        names(pair, pt) == {pair[1].value, pair[2].value} = {pt.x, pt.y}
    IN /\ Len(paths) = Cardinality(q)
       /\ \A i \in q :
             LET d == paths[rank(i)]
                 g == group(i)
             IN /\ Len(d) = Len(g.points)
                /\ d[1].cmd = "M"
                /\ Len(d[1].coords) = 1
                /\ names(d[1].coords[1], g.points[1])
                /\ \A k \in 2..Len(d) :
                      /\ d[k].cmd = "C"
                      /\ Len(d[k].coords) = 3
                      /\ names(d[k].coords[1], g.controls[k - 1].points[1])
                      /\ names(d[k].coords[2], g.controls[k - 1].points[2])
                      /\ names(d[k].coords[3], g.points[k])

\* the SVG export was copied with a one-point group ahead of a two-point
\* group in the collection: the document has a single path
C17_Witness ==
    /\ message = Some("Copied SVG to clipboard")
    /\ Len(curveGroups) = 2
    /\ Len(heap[curveGroups[1]].points) = 1
    /\ Len(heap[curveGroups[2]].points) = 2
    /\ Len(getSVGString.paths) = 1

\* C18: every coordinate pair of the SVG path data (the move target, both
\* control endpoints and the end point of each cubic command) is written
\* with the y coordinate first and the x coordinate second.
C18_PairsAreYThenX ==
    LET paths == getSVGString.paths
        digits == display.outputPrecision
        group(i) == heap[curveGroups[i]]
        q == {i \in 1..Len(curveGroups) : Len(group(i).points) > 1}
        rank(i) == Cardinality({j \in q : j <= i})
        yx(pt) == <<[value |-> pt.y, digits |-> digits],
                    [value |-> pt.x, digits |-> digits]>>
    IN \A i \in q :
          LET d == paths[rank(i)]
              g == group(i)
          IN /\ d[1].coords = <<yx(g.points[1])>>
             /\ \A k \in 2..Len(d) :
                   d[k].coords = <<yx(g.controls[k - 1].points[1]),
                                   yx(g.controls[k - 1].points[2]),
                                   yx(g.points[k])>>

\* the SVG export was copied for a curve from (0, 0) to (25, 5), whose
\* points and control endpoints differ in x and y
C18_Witness ==
    /\ message = Some("Copied SVG to clipboard")
    /\ Len(curveGroups) >= 1
    /\ heap[curveGroups[1]].points = <<PosA, PosB>>
    /\ getSVGString.paths[1][2].coords[3] =
          <<toFixed(5, display.outputPrecision),
            toFixed(25, display.outputPrecision)>>

\* C19: the JSON export in coordinate mode has one entry per group in
\* collection order, groups with zero or one point included; an entry lists
\* every point as (x - origin.x, y - origin.y) and every control as
\* (x1 - origin.x, y1 - origin.y, x2 - origin.x, y2 - origin.y) in stored
\* order, origin being the committed origin point.
C19_CoordsRelativeToOrigin ==
    LET out == getJSONString(COORDS)[1]
        digits == display.outputPrecision
        rel(v, o) == [value |-> v - o, digits |-> digits]
    IN /\ getJSONString(COORDS) # None
       /\ Len(out) = Len(curveGroups)
       /\ \A i \in 1..Len(curveGroups) :
             LET g == heap[curveGroups[i]]
             IN /\ Len(out[i].points) = Len(g.points)
                /\ \A k \in 1..Len(g.points) :
                      out[i].points[k] =
                          [x |-> rel(g.points[k].x, originPos.x),
                           y |-> rel(g.points[k].y, originPos.y)]
                /\ Len(out[i].controls) = Len(g.controls)
                /\ \A k \in 1..Len(g.controls) :
                      out[i].controls[k] =
                          [x1 |-> rel(g.controls[k].points[1].x, originPos.x),
                           y1 |-> rel(g.controls[k].points[1].y, originPos.y),
                           x2 |-> rel(g.controls[k].points[2].x, originPos.x),
                           y2 |-> rel(g.controls[k].points[2].y, originPos.y)]

\* the JSON export was copied after the origin was dragged to (25, 5), with
\* an empty group ahead of a two-point group
C19_Witness ==
    /\ message = Some("Copied JSON to clipboard")
    /\ originPos = PosB
    /\ ~dragOrigin
    /\ Len(curveGroups) = 2
    /\ heap[curveGroups[1]].points = <<>>
    /\ heap[curveGroups[2]].points = <<PosA, PosB>>

\* C20: during a reference scaling drag with dY = pointer.y - anchor.y the
\* scale drawn is max(committed scale - dY * 0.01, 0.1); the pointer-up that
\* ends the drag commits that value, so the committed scale is never below
\* 0.1, and horizontal pointer motion has no effect on it.  Scales are in
\* hundredths: 100 is 1.0 and 10 is 0.1.
C20_ScalingDragClampsScale ==
    [][LET dY == mousePos.y - reference.dragPosition.y
           expected == IF reference.scale - dY >= 10
                       THEN reference.scale - dY ELSE 10
           dragging == reference.ready /\ reference.scaling
                          /\ ~reference.moving
       IN /\ dragging => refPreview(reference, mousePos).scale = expected
          /\ (dragging /\ handleMouseUp /\ ~reference'.scaling)
                => /\ reference'.scale = expected
                   /\ reference'.offset = reference.offset
          /\ reference'.scale >= 10]_vars

\* a scaling drag pulled 1000 units down was released: the committed scale
\* is 0.1
C20_Witness ==
    /\ reference.scale = 10
    /\ ~reference.scaling
    /\ reference.dragPosition = PosB
    /\ mousePos = PosDown1000

\* C21: after a failure during the update pass the frame scheduler is halted
\* for the rest of the session: once the failure has been logged the loop
\* is not running, so no later pass runs, whatever pointer, tool-switch or
\* visibility-change events follow.
C21_FailureHaltsForGood == failureLogged => ~running

\* C22: the active tool changes only by explicit command: a step that
\* changes it is setActiveTool, or loadState of a snapshot that carries
\* activeTool.  Pointer-down, pointer-up, pointer-move, the update pass,
\* createGroup, deleteGroup, setActiveGroupId, delete-last-point,
\* sync-last-point, the exports and saveState leave it unchanged.
C22_ToolChangesOnlyByCommand ==
    [][activeTool' # activeTool
          => \/ setActiveTool(activeTool')
             \/ /\ loadStored
                /\ has(storage[1], "activeTool")
                /\ activeTool' = storage[1]["activeTool"]
             \/ \E state \in ToolSnapshots :
                   /\ loadState(state)
                   /\ has(state, "activeTool")
                   /\ activeTool' = state["activeTool"]]_vars

\* a loaded snapshot has set the tool while a group with a point exists
C22_Witness ==
    /\ activeTool = EDIT_ORIGIN_POINT
    /\ activeCurveGroup # None
    /\ Len(ActiveGroup.points) > 0
    /\ storage # None

\* C23: a pointer-down in EDIT_CONTROLS mode records as drag target the first
\* endpoint, in the order of control index and then endpoint 0 before
\* endpoint 1, whose pick box (half-size pointRangeHalf, strict
\* inequalities) contains the pointer, even when endpoints of several
\* controls overlap under the pointer; with no match nothing changes.
C23_FirstMatchingEndpointWins ==
    [][(handleMouseDown /\ activeTool = EDIT_CONTROLS /\ activeCurveGroup # None)
          => LET controls == ActiveGroup.controls
                 half == display.pointRangeHalf
                 Matches ==
                     {m \in (0..(Len(controls) - 1)) \X {0, 1} :
                         /\ mousePos.x > At(controls, m[1]).points[m[2] + 1].x - half
                         /\ mousePos.x < At(controls, m[1]).points[m[2] + 1].x + half
                         /\ mousePos.y > At(controls, m[1]).points[m[2] + 1].y - half
                         /\ mousePos.y < At(controls, m[1]).points[m[2] + 1].y + half}
                 first ==
                     CHOOSE m \in Matches :
                         \A n \in Matches :
                             m[1] < n[1] \/ (m[1] = n[1] /\ m[2] <= n[2])
             IN IF Matches = {}
                THEN UNCHANGED vars
                ELSE /\ dragControl' = first
                     /\ dragStart' = Some(mousePos)]_vars

\* C24: a pointer-down in EDIT_POINTS mode records as drag target the
\* lowest-index point of the active group whose pick box (half-size
\* pointRangeHalf, strict inequalities) contains the pointer, with the drag
\* anchor set to the pointer position; if no point matches, or there is no
\* active group, drag state and geometry are unchanged.
C24_LowestMatchingPointPicked ==
    [][(handleMouseDown /\ activeTool = EDIT_POINTS)
          => LET points == IF activeCurveGroup = None THEN <<>>
                           ELSE ActiveGroup.points
                 half == display.pointRangeHalf
                 Matches ==
                     {i \in 0..(Len(points) - 1) :
                         /\ mousePos.x > At(points, i).x - half
                         /\ mousePos.x < At(points, i).x + half
                         /\ mousePos.y > At(points, i).y - half
                         /\ mousePos.y < At(points, i).y + half}
             IN /\ UNCHANGED <<heap, curveGroups, activeCurveGroup, originPos,
                               dragControl, dragOrigin>>
                /\ IF Matches = {}
                   THEN UNCHANGED <<dragPoint, dragStart>>
                   ELSE /\ dragPoint' =
                              Some(CHOOSE i \in Matches :
                                      \A k \in Matches : i <= k)
                        /\ dragStart' = Some(mousePos)]_vars

\* the first and the third point both lie under the pointer and the first
\* is the one being dragged
C24_Witness ==
    /\ activeTool = EDIT_POINTS
    /\ activeCurveGroup # None
    /\ Len(ActiveGroup.points) = 3
    /\ ActiveGroup.points[1] = PosA
    /\ ActiveGroup.points[3] = PosA
    /\ mousePos = PosA
    /\ dragPoint = Some(0)
    /\ dragStart = Some(PosA)

\* C25: whenever a drag target is active (dragPoint non-null, dragControl
\* non-null or dragOrigin true) the shared anchor dragStart is non-null, so
\* neither the update pass nor pointer-up reads the coordinates of a missing
\* anchor, under any interleaving of pointer-down, pointer-up and tool
\* switches.
C25_DragTargetHasAnchor ==
    (dragPoint # None \/ dragControl # None \/ dragOrigin) => dragStart # None

\* C26: between the pointer-down that starts a point or control drag and
\* the matching pointer-up, under any interleaving of delete-last-point,
\* deleteGroup, createGroup, setActiveGroupId and loadState, the recorded
\* drag index stays a valid index into the active group's points
\* (respectively controls), so pointer-up and the update pass never
\* dereference a missing point or control.
C26_DragIndexStaysValid ==
    activeCurveGroup # None
        => /\ dragPoint # None => dragPoint[1] < Len(ActiveGroup.points)
           /\ dragControl # None => dragControl[1] < Len(ActiveGroup.controls)

\* C27: the pointer-up that ends a point drag adds the delta to the point
\* that pointer-down selected (same group, same index) and to no other
\* point or control of any group, even if the active group is changed by
\* setActiveGroupId or createGroup in between.  In SpecRetarget a point
\* moves only by such a pointer-up and dragStart is written only together
\* with dragPoint, so the selected point still lies within pick range of
\* the anchor dragStart when the pointer-up arrives: the point that
\* receives the delta must be one that contains the anchor in its pick box,
\* and every other point and control must keep its value.
C27_DeltaGoesToSelectedPoint ==
    [][(handleMouseUp /\ heap' # heap)
          => \E o \in DOMAIN heap :
                /\ dragPoint[1] < Len(heap[o].points)
                /\ inRange(dragStart[1], At(heap[o].points, dragPoint[1]),
                           display.pointRangeHalf)
                /\ heap' = [heap EXCEPT ![o] =
                               commitPoint(@, dragPoint[1],
                                           mousePos.x - dragStart[1].x,
                                           mousePos.y - dragStart[1].y)]]_vars

\* C28: the reference image's two drag sub-states are mutually exclusive:
\* in every reachable state moving and scaling are not both true, under any
\* sequence of pointer-down, pointer-up, tool-switch, set-data, clear-data
\* and decode-complete events.
C28_MovingExcludesScaling == ~(reference.moving /\ reference.scaling)

\* C29: every pointer-up that arrives while the reference image is moving
\* or scaling commits the drag into the stored offset or scale and leaves
\* the reference idle (moving and scaling both false), whichever tool is
\* active at pointer-up and whether or not the image data was cleared or
\* replaced during the drag.
C29_PointerUpEndsReferenceDrag ==
    [][(handleMouseUp /\ (reference.moving \/ reference.scaling))
          => LET deltaX == mousePos.x - reference.dragPosition.x
                 deltaY == mousePos.y - reference.dragPosition.y
             IN /\ ~reference'.moving
                /\ ~reference'.scaling
                /\ reference.moving
                      => /\ reference'.offset.x = reference.offset.x + deltaX
                         /\ reference'.offset.y = reference.offset.y + deltaY
                /\ ~reference.moving
                      => reference'.scale =
                            Max(reference.scale - deltaY, MinScale)]_vars

C31_PreviewAgreesWithCommit ==
    ~updateThrows
        => ~ENABLED
              /\ handleMouseUp
              /\ ~ /\ reference.ready
                         => /\ refPreview(reference, mousePos).offset
                                  = reference'.offset
                            /\ refPreview(reference, mousePos).scale
                                  = reference'.scale
                   /\ \A i \in 1..Len(curveGroups) :
                         LET g == heap[curveGroups[i]]
                             after == heap'[curveGroups[i]]
                         IN /\ \A j \in 0..(Len(g.points) - 1) :
                                  drawnPoint(g, j) = At(after.points, j)
                            /\ \A j \in 0..(Len(g.controls) - 1) :
                                  drawnControl(g, j) = At(after.controls, j).points
                   /\ activeTool = EDIT_ORIGIN_POINT => drawnOrigin = originPos'

\* C32: pointer-down and pointer-up while the active tool is
\* TRANSFORM_REFERENCE (and likewise the reserved DELETE_POINTS) never change
\* curve data: the group collection, every group's points and controls, the
\* active-group reference, the origin point, and the point / control /
\* origin drag state with its anchor are unchanged.
C32_ReferenceToolKeepsCurveData ==
    [][((handleMouseDown \/ handleMouseUp)
            /\ activeTool \in {TRANSFORM_REFERENCE, DELETE_POINTS})
          => UNCHANGED <<heap, curveGroups, activeCurveGroup, originPos,
                         dragPoint, dragControl, dragOrigin, dragStart>>]_vars

\* a reference move was started under TRANSFORM_REFERENCE while a point drag
\* begun under EDIT_POINTS is still recorded
C32_Witness ==
    /\ activeTool = TRANSFORM_REFERENCE
    /\ reference.moving
    /\ reference.dragPosition = mousePos
    /\ activeCurveGroup # None
    /\ Len(ActiveGroup.points) > 0
    /\ dragPoint = Some(0)

\* C33: whenever the reference is ready, the image element has finished
\* decoding the payload that is currently stored: ready is false after a
\* clear and stays false after a set or replace until that payload's onload
C33_ReadyMeansStoredDataDecoded ==
    reference.ready =>
        /\ reference.data # ""
        /\ reference.image.src = reference.data
        /\ reference.image.state = "loaded"

\* C34: the cached halves follow their fields: in every reachable state
\* pointRangeHalf is half of pointRange and pointSizeHalf half of pointSize
C34_HalvesFollowFields ==
    /\ display.pointRangeHalf = Half(display.pointRange)
    /\ display.pointSizeHalf = Half(display.pointSize)

\* C35: under every tool deleteLastPoint removes exactly the last point and,
\* if there is one, the last control of the active group, and changes
\* nothing else: no other group, and nothing at all when there is no active
\* group or the active group has no points
C35_DeleteLastPointEffect ==
    [][deleteLastPoint =>
          IF activeCurveGroup # None /\ Len(ActiveGroup.points) > 0
          THEN LET a == activeCurveGroup[1]
                   n == Len(heap[a].points)
                   m == Len(heap[a].controls)
               IN /\ DOMAIN heap' = DOMAIN heap
                  /\ heap'[a].id = heap[a].id
                  /\ heap'[a].points = SubSeq(heap[a].points, 1, n - 1)
                  /\ heap'[a].controls =
                         IF m > 0 THEN SubSeq(heap[a].controls, 1, m - 1)
                         ELSE <<>>
                  /\ \A o \in DOMAIN heap \ {a} : heap'[o] = heap[o]
                  /\ UNCHANGED <<curveGroups, activeCurveGroup, originPos,
                                 display, dragStart, dragPoint, dragControl,
                                 dragOrigin, reference, activeTool, mousePos,
                                 running, storage, message, failureLogged>>
          ELSE UNCHANGED vars]_vars

\* under EDIT_POINTS the second point of the active group was picked at PosB
\* and then deleted with its control: the group keeps its first point alone, while the
\* other group still has its two points and its control
C35_Witness ==
    /\ activeTool = EDIT_POINTS
    /\ dragPoint = Some(1)
    /\ dragStart = Some(PosB)
    /\ activeCurveGroup # None
    /\ ActiveGroup.points = <<PosA>>
    /\ ActiveGroup.controls = <<>>
    /\ \E o \in DOMAIN heap :
          /\ heap[o].points = <<PosB, PosA>>
          /\ Len(heap[o].controls) = 1

====
